---- MODULE Spec2Model ----
(***************************************************************************)
(* A model of bat's persistence subsystem: package systemd (configs,       *)
(* compatSystemd, process and the five fan-out operations Write, Remove,   *)
(* Disable, Present, Enabled), package power's Get, and the cli commands   *)
(* persist, remove, disable and status that call them and then exit.       *)
(* Two more programs of the repository follow, each under a specification  *)
(* of its own: the limit command of package cli (SpecLimit) and the        *)
(* single-file program with its limit, persist, remove and status commands *)
(* (SpecMain).                                                             *)
(*                                                                         *)
(* Text is modelled as tuples of one-character strings so that parsing     *)
(* (regexp \d+, strconv.Atoi, bytes.TrimSpace) is computed, not assumed.   *)
(***************************************************************************)
EXTENDS Integers, Sequences, FiniteSets, TLC

VARIABLES
    batteries,   \* number of /sys/class/power_supply/BAT?/ matches for the threshold file
    device,      \* the value the kernel holds for charge_control_end_threshold
    systemdVer,  \* the installed systemd version
    unitFiles,   \* /etc/systemd/system/: unit name -> file content, or NoFile
    wants,       \* units the service manager has registered as enabled (wants symlinks)
    emptyListFails, \* whether this systemd's list-unit-files exits non-zero on an empty listing
    proc,        \* the bat command running as a process, or "none"
    call,        \* the Systemd method the command is in
    pc,          \* position of the main goroutine
    phase,       \* index of the current fan-out among the method's fan-outs
    cfgs,        \* the []config the current method built
    fn,          \* the function the current fan-out runs, or "none"
    task,        \* task[name]: position of the current fan-out's goroutine for that unit
    errs,        \* the buffered channel of the current fan-out
    recvd,       \* results the current process loop has received
    ret,         \* the error value the current method returned
    presentRet,  \* what Present() returned to status
    faults,      \* environment failures injected so far
    trace,       \* observations of the current method call (history)
    last,        \* the latest persist, remove or disable that ended: command, result,
                 \* threshold read (history; status changes nothing and leaves it)
    main,        \* the single-file program: its process, unit files and sleep hook
    app          \* the cli package's limit command: its arguments, kernel and position

vars == <<batteries, device, systemdVer, emptyListFails, unitFiles, wants, proc, call,
          pc, phase, cfgs, fn, task, errs, recvd, ret, presentRet, faults, trace, last,
          main, app>>

\* the other programs of the repository, which the systemd package never touches
progVars == <<main, app>>

envVars == <<batteries, device, systemdVer, emptyListFails, unitFiles, wants>>

-----------------------------------------------------------------------------
(* Bounds of the model *)

\* environment failures (EACCES, a failing systemctl, ...) injected per behaviour
MaxFaults == 1

\* battery directories the glob may match
MaxBatteries == 2

-----------------------------------------------------------------------------
(* Program constants *)

MinSystemd == 244

MaxThreshold == 100

Nil == "nil"

ErrIncompatSystemd == "systemd: incompatible systemd version"

ErrSyntax == "strconv: invalid syntax"

ErrRange == "strconv: value out of range"

-----------------------------------------------------------------------------
(* Text: tuples of one-character strings *)

Digits == <<"0", "1", "2", "3", "4", "5", "6", "7", "8", "9">>

IsDigit(c) == \E i \in 1..10 : Digits[i] = c

DigitVal(c) == (CHOOSE i \in 1..10 : Digits[i] = c) - 1

IsSpace(c) == c \in {" ", "\n", "\t", "\r"}

RECURSIVE TrimLeft(_)
TrimLeft(s) ==
    IF s # <<>> /\ IsSpace(Head(s)) THEN TrimLeft(Tail(s)) ELSE s

RECURSIVE TrimRight(_)
TrimRight(s) ==
    IF s # <<>> /\ IsSpace(s[Len(s)]) THEN TrimRight(SubSeq(s, 1, Len(s) - 1)) ELSE s

\* bytes.TrimSpace
TrimSpace(s) == TrimRight(TrimLeft(s))

RECURSIVE DigitsValue(_, _)
DigitsValue(s, acc) ==
    IF s = <<>> THEN acc ELSE DigitsValue(Tail(s), 10 * acc + DigitVal(Head(s)))

RECURSIVE StripZeros(_)
StripZeros(s) ==
    IF Len(s) > 1 /\ Head(s) = "0" THEN StripZeros(Tail(s)) ELSE s

\* the digits of 1<<63 - 1, the largest int of a 64-bit build
MaxInt == <<"9", "2", "2", "3", "3", "7", "2", "0", "3", "6", "8", "5", "4", "7", "7",
            "5", "8", "0", "7">>

\* a and b digit texts of the same length: a stands for the larger number
Larger(a, b) ==
    \E i \in 1..Len(a) :
        /\ DigitVal(a[i]) > DigitVal(b[i])
        /\ \A j \in 1..(i - 1) : a[j] = b[j]

\* the digits stand for a magnitude no int holds (-1<<63 is held)
OutOfRange(body, negative) ==
    LET sig   == StripZeros(body)
        limit == IF negative THEN [MaxInt EXCEPT ![Len(MaxInt)] = "8"] ELSE MaxInt
    IN  Len(sig) > Len(limit) \/ (Len(sig) = Len(limit) /\ Larger(sig, limit))

\* strconv.Atoi: an optional sign, then one or more decimal digits
Atoi(s) ==
    LET signed == s # <<>> /\ Head(s) \in {"+", "-"}
        body   == IF signed THEN Tail(s) ELSE s
    IN  IF body = <<>> \/ \E i \in 1..Len(body) : ~IsDigit(body[i])
        THEN [val |-> 0, err |-> ErrSyntax]
        ELSE IF OutOfRange(body, signed /\ Head(s) = "-")
        THEN [val |-> 0, err |-> ErrRange]
        ELSE [val |-> IF signed /\ Head(s) = "-" THEN 0 - DigitsValue(body, 0)
                      ELSE DigitsValue(body, 0),
              err |-> Nil]

RECURSIVE Itoa(_)
\* the decimal text of a natural number
Itoa(n) ==
    IF n < 10 THEN <<Digits[n + 1]>> ELSE Itoa(n \div 10) \o <<Digits[(n % 10) + 1]>>

RECURSIVE DigitRun(_)
DigitRun(s) ==
    IF s # <<>> /\ IsDigit(Head(s)) THEN <<Head(s)>> \o DigitRun(Tail(s)) ELSE <<>>

RECURSIVE ReFind(_)
\* regexp.MustCompile(`\d+`).Find: the leftmost, longest run of digits; <<>> if none
ReFind(out) ==
    IF out = <<>> THEN <<>>
    ELSE IF IsDigit(Head(out)) THEN DigitRun(out)
    ELSE ReFind(Tail(out))

-----------------------------------------------------------------------------
(* The event registry and the environment *)

\* the Event and Target of configs(), in its order
EventSeq == <<"boot", "hibernation", "hybridsleep", "sleep", "suspendthenhibernate">>

TargetSeq == <<"multi-user", "hibernate", "hybrid-sleep", "suspend", "suspend-then-hibernate">>

\* name := "bat-" + cfg.Event + ".service"
UnitName(cfg) == "bat-" \o cfg.Event \o ".service"

UnitNames == {UnitName([Event |-> EventSeq[i]]) : i \in 1..Len(EventSeq)}

\* the content of a directory entry that does not exist
NoFile == <<"ENOENT">>

\* the values the kernel may hold for the threshold
DeviceValues == {1, MaxThreshold}

\* the systemd versions that may be installed
InstalledVersions == {MinSystemd - 1, MinSystemd}

\* what reading the sysfs threshold file yields: the value and a newline
ReadFile == Itoa(device) \o <<"\n">>

\* the output of `systemctl --version`, e.g. "systemd 243 (243)\n+PAM ..."
VersionOutput ==
    <<"s", "y", "s", "t", "e", "m", "d", " ">> \o Itoa(systemdVer)
        \o <<" ", "(">> \o Itoa(systemdVer) \o <<")", "\n", "+", "P", "A", "M">>

\* what a write that fails part of the way leaves of the unit: its text up to,
\* not including, the [Install] section
RenderPrefix(cfg) == <<cfg.Event, cfg.Threshold>>

\* tmpl.Execute(sf, cfg): the unit text rendered from the template for cfg
Render(cfg) == <<cfg.Event, cfg.Target, cfg.Threshold>>

\* power.find: the glob over BAT?/ must match exactly one file
find ==
    IF batteries = 0 THEN [path |-> "", err |-> "power: no battery virtual file found"]
    ELSE IF batteries > 1
         THEN [path |-> "", err |-> "power: multiple battery virtual files found"]
         ELSE [path |-> "BAT0", err |-> Nil]

\* power.Get(Threshold)
Get ==
    IF find.err # Nil THEN [val |-> <<>>, err |-> Nil]
    ELSE [val |-> TrimSpace(ReadFile), err |-> Nil]

\* configs listing the boot unit after the hibernation unit
configs_BootSecond ==
    LET got       == Get
        threshold == Atoi(got.val)
        order     == <<2, 1, 3, 4, 5>>
    IN  IF got.err # Nil THEN [cfgs |-> <<>>, err |-> got.err]
        ELSE IF threshold.err # Nil THEN [cfgs |-> <<>>, err |-> threshold.err]
        ELSE [cfgs |-> [i \in 1..Len(EventSeq) |->
                            [Event |-> EventSeq[order[i]], Target |-> TargetSeq[order[i]],
                             Threshold |-> threshold.val]],
              err |-> Nil]

configs ==
    LET got       == Get
        threshold == Atoi(got.val)
    IN  IF got.err # Nil THEN [cfgs |-> <<>>, err |-> got.err]
        ELSE IF threshold.err # Nil THEN [cfgs |-> <<>>, err |-> threshold.err]
        ELSE [cfgs |-> [i \in 1..Len(EventSeq) |->
                            [Event |-> EventSeq[i], Target |-> TargetSeq[i],
                             Threshold |-> threshold.val]],
              err |-> Nil]

\* compatSystemd accepting the release before v244
compatSystemd_OffByOne(execFails) ==
    IF execFails THEN "exec: systemctl --version failed"
    ELSE LET ver == Atoi(ReFind(VersionOutput))
         IN  IF ver.err # Nil THEN ver.err
             ELSE IF ver.val < MinSystemd - 1 THEN ErrIncompatSystemd
             ELSE Nil

\* compatSystemd, given whether running `systemctl --version` itself failed
compatSystemd(execFails) ==
    IF execFails THEN "exec: systemctl --version failed"
    ELSE LET ver == Atoi(ReFind(VersionOutput))
         IN  IF ver.err # Nil THEN ver.err
             ELSE IF ver.val < MinSystemd THEN ErrIncompatSystemd
             ELSE Nil

\* `systemctl is-enabled name`: standard output and exit status.  An empty unit
\* file counts as masked (exit 1), one without an [Install] section as static
\* (exit 0).
IsEnabledCmd(name) ==
    IF unitFiles[name] = NoFile THEN [out |-> "", err |-> "exit status 1"]
    ELSE IF unitFiles[name] = <<>> THEN [out |-> "masked\n", err |-> "exit status 1"]
    ELSE IF Len(unitFiles[name]) < 3 THEN [out |-> "static\n", err |-> Nil]
    ELSE IF name \in wants THEN [out |-> "enabled\n", err |-> Nil]
    ELSE [out |-> "disabled\n", err |-> "exit status 1"]

\* `systemctl list-unit-files -q name`: an absent unit lists nothing, and whether an
\* empty listing is a failure depends on the systemd release
ListUnitFilesCmd(name) ==
    IF unitFiles[name] # NoFile THEN [out |-> name \o " enabled\n", err |-> Nil]
    ELSE [out |-> "", err |-> IF emptyListFails THEN "exit status 1" ELSE Nil]

\* `systemctl enable name`: links a unit file that has an [Install] section;
\* fails when there is no unit file or the unit is masked
EnableCmd(name, denied) ==
    IF denied THEN [wants |-> wants, err |-> "exit status 1"]
    ELSE IF unitFiles[name] = NoFile THEN [wants |-> wants, err |-> "exit status 1"]
    ELSE IF unitFiles[name] = <<>> THEN [wants |-> wants, err |-> "exit status 1"]
    ELSE IF Len(unitFiles[name]) < 3 THEN [wants |-> wants, err |-> Nil]
    ELSE [wants |-> wants \cup {name}, err |-> Nil]

\* `systemctl disable name`: unlinks the unit; for a name with no unit file it drops
\* what links there are and reports that the unit file does not exist
DisableCmd(name, denied) ==
    IF denied
    THEN [wants |-> wants, err |-> "exit status 1",
          stderr |-> <<"Failed to disable unit: Access denied">>]
    ELSE IF unitFiles[name] # NoFile
    THEN [wants |-> wants \ {name}, err |-> Nil, stderr |-> <<>>]
    ELSE [wants |-> wants \ {name}, err |-> "exit status 1",
          stderr |-> <<"Failed to disable unit: Unit file ", name, " does not exist.">>]

\* bytes.Contains(buf.Bytes(), []byte(name+" does not exist."))
ContainsDoesNotExist(buf, name) ==
    \E k \in 1..(Len(buf) - 1) : buf[k] = name /\ buf[k + 1] = " does not exist."

\* Write and Disable registering the units before they write them
Fns_RegisterFirst(method) ==
    CASE method = "Write"   -> <<"enable", "write">>
      [] method = "Remove"  -> <<"remove", "disable">>
      [] method = "Disable" -> <<"disable", "write">>
      [] method = "Present" -> <<"present">>
      [] method = "Enabled" -> <<"enabled">>

\* Disable written as a copy of Write
Fns_DisableEnables(method) ==
    CASE method = "Write"   -> <<"write", "enable">>
      [] method = "Remove"  -> <<"remove", "disable">>
      [] method = "Disable" -> <<"write", "enable">>
      [] method = "Present" -> <<"present">>
      [] method = "Enabled" -> <<"enabled">>

\* the fan-outs of each Systemd method, in order
Fns(method) ==
    CASE method = "Write"   -> <<"write", "enable">>
      [] method = "Remove"  -> <<"remove", "disable">>
      [] method = "Disable" -> <<"write", "disable">>
      [] method = "Present" -> <<"present">>
      [] method = "Enabled" -> <<"enabled">>

\* the Systemd method each cli command calls first
FirstCall(command) ==
    CASE command = "persist" -> "Write"
      [] command = "remove"  -> "Remove"
      [] command = "disable" -> "Disable"
      [] command = "status"  -> "Present"

Commands == {"persist", "remove", "disable", "status"}

NoTasks == [n \in UnitNames |-> "none"]

\* the single-file program and the cli limit command not in use
NoMain ==
    [pc |-> "none", args |-> <<>>, limit |-> <<>>, ev |-> 0, cur |-> 0, exit |-> 0,
     msg |-> "", files |-> <<>>, on |-> {}, sleep |-> FALSE, ops |-> <<>>,
     wrote |-> <<>>, f |-> 0, failed |-> {}, supported |-> FALSE]

NoApp == [pc |-> "none"]

NoTrace == [queried |-> FALSE, ops |-> {}, failed |-> {}, read |-> 0,
            reported |-> 0]

-----------------------------------------------------------------------------
(* Initial state: a machine on which bat has installed nothing *)

Init ==
    /\ batteries \in 0..MaxBatteries
    /\ device \in DeviceValues
    /\ systemdVer \in InstalledVersions
    /\ emptyListFails \in BOOLEAN
    /\ unitFiles = [n \in UnitNames |-> NoFile]
    /\ wants = {}
    /\ proc = "none"
    /\ call = "none"
    /\ pc = "idle"
    /\ phase = 0
    /\ cfgs = <<>>
    /\ fn = "none"
    /\ task = NoTasks
    /\ errs = <<>>
    /\ recvd = 0
    /\ ret = Nil
    /\ presentRet = Nil
    /\ faults = 0
    /\ trace = NoTrace
    /\ last = [cmd |-> "none", ret |-> Nil, read |-> 0]
    /\ main = NoMain
    /\ app = NoApp

-----------------------------------------------------------------------------
(* The cli: a command starts as a process and calls its Systemd method *)

Run(command) ==
    /\ proc = "none"
    /\ proc' = command
    /\ call' = FirstCall(command)
    /\ pc' = "configs"
    /\ trace' = NoTrace
    /\ UNCHANGED <<progVars, envVars, phase, cfgs, fn, task, errs, recvd, ret, presentRet,
                   faults, last>>

\* cfgs, err := configs(); if err != nil { return err }
Configs ==
    /\ pc = "configs"
    /\ LET r == configs
       IN  /\ trace' = [trace EXCEPT !.read = IF find.err = Nil THEN device ELSE 0]
           /\ IF r.err # Nil
              THEN /\ ret' = r.err
                   /\ pc' = "returned"
                   /\ UNCHANGED <<cfgs, phase>>
              ELSE /\ cfgs' = r.cfgs
                   /\ phase' = 1
                   /\ pc' = "fanout"
                   /\ UNCHANGED ret
    /\ UNCHANGED <<progVars, envVars, proc, call, fn, task, errs, recvd, presentRet,
                   faults, last>>

\* the first position of a goroutine running f
FirstStep(f) == IF f = "write" THEN "create" ELSE "run"

\* process, up to its receive loop: errs := make(chan error, len(cfgs)); go fn(cfg, errs)
Spawn(f) ==
    /\ fn' = f
    /\ task' = [n \in UnitNames |->
                   IF \E i \in 1..Len(cfgs) : UnitName(cfgs[i]) = n
                   THEN FirstStep(f) ELSE "none"]
    /\ errs' = <<>>
    /\ recvd' = 0
    /\ pc' = "recv"

\* s.remove, s.enable, s.disable, s.present, s.enabled: process(cfgs, ...) at once
Fanout ==
    /\ pc = "fanout"
    /\ Fns(call)[phase] # "write"
    /\ Spawn(Fns(call)[phase])
    /\ UNCHANGED <<progVars, envVars, proc, call, phase, cfgs, ret, presentRet, faults,
                   trace, last>>

\* s.write without the call of compatSystemd
WriteGate_NoCheck(execFails) ==
    /\ pc = "fanout"
    /\ Fns(call)[phase] = "write"
    /\ ~execFails
    /\ Spawn("write")
    /\ UNCHANGED <<progVars, envVars, proc, call, phase, cfgs, ret, presentRet, faults,
                   trace, last>>

\* s.write: compatSystemd() gates the fan-out (the embedded template always parses)
WriteGate(execFails) ==
    /\ pc = "fanout"
    /\ Fns(call)[phase] = "write"
    /\ execFails => faults < MaxFaults
    /\ faults' = IF execFails THEN faults + 1 ELSE faults
    /\ LET err == compatSystemd(execFails)
       IN  /\ trace' = [trace EXCEPT
                           !.queried = TRUE,
                           !.failed = IF execFails THEN @ \cup {<<"version", "systemctl", err>>}
                                      ELSE @]
           /\ IF err # Nil
              THEN /\ ret' = err
                   /\ pc' = "returned"
                   /\ UNCHANGED <<fn, task, errs, recvd>>
              ELSE /\ Spawn("write")
                   /\ UNCHANGED ret
    /\ UNCHANGED <<progVars, envVars, proc, call, phase, cfgs, presentRet, last>>

-----------------------------------------------------------------------------
(* The goroutines of a fan-out.  The goroutine for cfgs[i] lives until the    *)
(* bat process exits.                                                         *)

\* a channel made with room for one result
Cap_Single == IF \E n \in UnitNames : task[n] # "none" THEN 1 ELSE 0

\* cap(errs): one slot per goroutine started
Cap == Cardinality({n \in UnitNames : task[n] # "none"})

\* a send on a channel made without capacity: it needs process to be receiving
Send_Unbuffered(n, e) ==
    /\ pc = "recv"
    /\ errs = <<>>
    /\ errs' = Append(errs, e)
    /\ task' = [task EXCEPT ![n] = "done"]

\* in <- e; return
Send(n, e) ==
    /\ Len(errs) < Cap
    /\ errs' = Append(errs, e)
    /\ task' = [task EXCEPT ![n] = "done"]

Log(verb, n) == trace' = [trace EXCEPT !.ops = @ \cup {<<verb, n>>}]

LogFault(verb, n, e) ==
    /\ faults < MaxFaults
    /\ faults' = faults + 1
    /\ trace' = [trace EXCEPT !.ops = @ \cup {<<verb, n>>},
                              !.failed = @ \cup {<<verb, n, e>>}]

\* Scheduling.  The five goroutines run the same code on configurations that
\* differ in Event and Target only, so two goroutines whose units are in the
\* same condition are interchangeable: of those, the one earlier in configs
\* steps first.

\* what a unit file holds, up to the Event and Target rendered into it
FileKind(n) ==
    IF Len(unitFiles[n]) = 3 THEN <<"unit", unitFiles[n][3]>>
    ELSE IF Len(unitFiles[n]) = 2 THEN <<"prefix", unitFiles[n][2]>>
    ELSE unitFiles[n]

\* the condition of the unit cfgs[i] and of its goroutine
UnitState(i) ==
    LET n == UnitName(cfgs[i])
    IN  <<FileKind(n), n \in wants, task[n],
          {op[1] : op \in {o \in trace.ops : o[2] = n}},
          {<<f[1], f[3]>> : f \in {o \in trace.failed : o[2] = n}}>>

First(i) == \A j \in 1..(i - 1) : UnitState(j) # UnitState(i)

\* the goroutine of fn f started for cfgs[i] is at position `at` and may step
Live(i, f, at) ==
    /\ proc # "none"
    /\ fn = f
    /\ i \in 1..Len(cfgs)
    /\ task[UnitName(cfgs[i])] = at
    /\ First(i)

\* write creating the file with O_EXCL: a file that is there already is an error
CreateOk_Exclusive(i) ==
    LET n == UnitName(cfgs[i])
    IN  /\ Live(i, "write", "create")
        /\ IF unitFiles[n] = NoFile
           THEN /\ unitFiles' = [unitFiles EXCEPT ![n] = <<>>]
                /\ task' = [task EXCEPT ![n] = "execute"]
                /\ UNCHANGED errs
           ELSE /\ Send(n, "EEXIST")
                /\ UNCHANGED unitFiles
        /\ Log("create", n)
        /\ UNCHANGED <<progVars, batteries, device, systemdVer, emptyListFails, wants,
                       proc, call, pc, phase, cfgs, fn, recvd, ret, presentRet, faults,
                       last>>

\* write whose os.Create truncates the boot unit's file too
CreateOk_Shared(i) ==
    LET n == UnitName(cfgs[i])
    IN  /\ Live(i, "write", "create")
        /\ unitFiles' = [unitFiles EXCEPT ![n] = <<>>, ![UnitName(cfgs[1])] = <<>>]
        /\ task' = [task EXCEPT ![n] = "execute"]
        /\ Log("create", n)
        /\ UNCHANGED <<progVars, batteries, device, systemdVer, emptyListFails, wants,
                       proc, call, pc, phase, cfgs, fn, errs, recvd, ret, presentRet,
                       faults, last>>

\* write: sf, err := os.Create(name), which succeeds and truncates the file
CreateOk(i) ==
    LET n == UnitName(cfgs[i])
    IN  /\ Live(i, "write", "create")
        /\ unitFiles' = [unitFiles EXCEPT ![n] = <<>>]
        /\ task' = [task EXCEPT ![n] = "execute"]
        /\ Log("create", n)
        /\ UNCHANGED <<progVars, batteries, device, systemdVer, emptyListFails, wants,
                       proc, call, pc, phase, cfgs, fn, errs, recvd, ret, presentRet,
                       faults, last>>

\* write dropping the error of os.Create
CreateFails_Dropped(i, e) ==
    LET n == UnitName(cfgs[i])
    IN  /\ Live(i, "write", "create")
        /\ LogFault("create", n, e)
        /\ Send(n, Nil)
        /\ UNCHANGED <<progVars, envVars, proc, call, pc, phase, cfgs, fn, recvd, ret,
                       presentRet, last>>

\* write: os.Create fails; any error but ENOENT is sent, ENOENT falls through
\* to tmpl.Execute with a nil file
CreateFails(i, e) ==
    LET n == UnitName(cfgs[i])
    IN  /\ Live(i, "write", "create")
        /\ LogFault("create", n, e)
        /\ IF e # "ENOENT"
           THEN Send(n, e)
           ELSE /\ task' = [task EXCEPT ![n] = "execute_nil"]
                /\ UNCHANGED errs
        /\ UNCHANGED <<progVars, envVars, proc, call, pc, phase, cfgs, fn, recvd, ret,
                       presentRet, last>>

\* write rendering every unit for the boot target
ExecuteOk_BootTarget(i) ==
    LET n == UnitName(cfgs[i])
    IN  /\ Live(i, "write", "execute")
        /\ unitFiles' = [unitFiles EXCEPT
                            ![n] = Render([cfgs[i] EXCEPT !.Target = TargetSeq[1]])]
        /\ Send(n, Nil)
        /\ Log("execute", n)
        /\ UNCHANGED <<progVars, batteries, device, systemdVer, emptyListFails, wants,
                       proc, call, pc, phase, cfgs, fn, recvd, ret, presentRet, faults,
                       last>>

\* write rendering with the threshold as it is on the device by now
ExecuteOk_ReadsAgain(i) ==
    LET n == UnitName(cfgs[i])
    IN  /\ Live(i, "write", "execute")
        /\ unitFiles' = [unitFiles EXCEPT ![n] = Render([cfgs[i] EXCEPT !.Threshold = device])]
        /\ Send(n, Nil)
        /\ Log("execute", n)
        /\ UNCHANGED <<progVars, batteries, device, systemdVer, emptyListFails, wants,
                       proc, call, pc, phase, cfgs, fn, recvd, ret, presentRet, faults,
                       last>>

\* write: tmpl.Execute(sf, cfg) writes the rendered unit; in <- nil
ExecuteOk(i) ==
    LET n == UnitName(cfgs[i])
    IN  /\ Live(i, "write", "execute")
        /\ unitFiles' = [unitFiles EXCEPT ![n] = Render(cfgs[i])]
        /\ Send(n, Nil)
        /\ Log("execute", n)
        /\ UNCHANGED <<progVars, batteries, device, systemdVer, emptyListFails, wants,
                       proc, call, pc, phase, cfgs, fn, recvd, ret, presentRet, faults,
                       last>>

\* write: tmpl.Execute fails while writing; in <- err
ExecuteFails(i, e) ==
    LET n == UnitName(cfgs[i])
    IN  /\ Live(i, "write", "execute")
        /\ LogFault("execute", n, e)
        /\ Send(n, e)
        /\ UNCHANGED <<progVars, envVars, proc, call, pc, phase, cfgs, fn, recvd, ret,
                       presentRet, last>>

\* write: tmpl.Execute fails after part of the unit has reached the file; in <- err
ExecuteFailsPartway(i, e) ==
    LET n == UnitName(cfgs[i])
    IN  /\ Live(i, "write", "execute")
        /\ LogFault("execute", n, e)
        /\ unitFiles' = [unitFiles EXCEPT ![n] = RenderPrefix(cfgs[i])]
        /\ Send(n, e)
        /\ UNCHANGED <<progVars, batteries, device, systemdVer, emptyListFails, wants,
                       proc, call, pc, phase, cfgs, fn, recvd, ret, presentRet, last>>

\* write: tmpl.Execute on a nil *os.File returns os.ErrInvalid; in <- err
ExecuteNil(i) ==
    LET n == UnitName(cfgs[i])
    IN  /\ Live(i, "write", "execute_nil")
        /\ Send(n, "invalid argument")
        /\ Log("execute", n)
        /\ UNCHANGED <<progVars, envVars, proc, call, pc, phase, cfgs, fn, recvd, ret,
                       presentRet, faults, last>>

\* remove: os.Remove(name); ENOENT (the file is absent) is not an error
RemoveOk_Strict(i) ==
    LET n == UnitName(cfgs[i])
    IN  /\ Live(i, "remove", "run")
        /\ IF unitFiles[n] = NoFile
           THEN Send(n, "ENOENT") /\ UNCHANGED unitFiles
           ELSE Send(n, Nil) /\ unitFiles' = [unitFiles EXCEPT ![n] = NoFile]
        /\ Log("remove", n)
        /\ UNCHANGED <<progVars, batteries, device, systemdVer, emptyListFails, wants,
                       proc, call, pc, phase, cfgs, fn, recvd, ret, presentRet, faults,
                       last>>

RemoveOk(i) ==
    LET n == UnitName(cfgs[i])
    IN  /\ Live(i, "remove", "run")
        /\ unitFiles' = [unitFiles EXCEPT ![n] = NoFile]
        /\ Send(n, Nil)
        /\ Log("remove", n)
        /\ UNCHANGED <<progVars, batteries, device, systemdVer, emptyListFails, wants,
                       proc, call, pc, phase, cfgs, fn, recvd, ret, presentRet, faults,
                       last>>

\* remove: os.Remove fails with another error; in <- err
RemoveFails(i, e) ==
    LET n == UnitName(cfgs[i])
    IN  /\ Live(i, "remove", "run")
        /\ LogFault("remove", n, e)
        /\ Send(n, e)
        /\ UNCHANGED <<progVars, envVars, proc, call, pc, phase, cfgs, fn, recvd, ret,
                       presentRet, last>>

\* enable: cmd.Run(); any error is sent
EnableStep(i, denied) ==
    LET n == UnitName(cfgs[i])
        r == EnableCmd(n, denied)
    IN  /\ Live(i, "enable", "run")
        /\ IF denied THEN LogFault("enable", n, r.err)
           ELSE Log("enable", n) /\ UNCHANGED faults
        /\ wants' = r.wants
        /\ Send(n, r.err)
        /\ UNCHANGED <<progVars, batteries, device, systemdVer, emptyListFails,
                       unitFiles, proc, call, pc, phase, cfgs, fn, recvd, ret,
                       presentRet, last>>

\* disable sending every error of systemctl
DisableStep_Strict(i, denied) ==
    LET n == UnitName(cfgs[i])
        r == DisableCmd(n, denied)
    IN  /\ Live(i, "disable", "run")
        /\ IF denied THEN LogFault("disable", n, r.err)
           ELSE Log("disable", n) /\ UNCHANGED faults
        /\ wants' = r.wants
        /\ Send(n, r.err)
        /\ UNCHANGED <<progVars, batteries, device, systemdVer, emptyListFails,
                       unitFiles, proc, call, pc, phase, cfgs, fn, recvd, ret,
                       presentRet, last>>

\* disable: cmd.Run(); an error is sent unless stderr says the unit does not exist
DisableStep(i, denied) ==
    LET n == UnitName(cfgs[i])
        r == DisableCmd(n, denied)
    IN  /\ Live(i, "disable", "run")
        /\ IF denied THEN LogFault("disable", n, r.err)
           ELSE Log("disable", n) /\ UNCHANGED faults
        /\ wants' = r.wants
        /\ IF r.err # Nil /\ ~ContainsDoesNotExist(r.stderr, n)
           THEN Send(n, r.err)
           ELSE Send(n, Nil)
        /\ UNCHANGED <<progVars, batteries, device, systemdVer, emptyListFails,
                       unitFiles, proc, call, pc, phase, cfgs, fn, recvd, ret,
                       presentRet, last>>

\* present: if err != nil || string(output) == "" { in <- err; return }; in <- nil
PresentStep(i) ==
    LET n == UnitName(cfgs[i])
        r == ListUnitFilesCmd(n)
    IN  /\ Live(i, "present", "run")
        /\ IF r.err # Nil \/ r.out = ""
           THEN Send(n, r.err)
           ELSE Send(n, Nil)
        /\ Log("list-unit-files", n)
        /\ UNCHANGED <<progVars, envVars, proc, call, pc, phase, cfgs, fn, recvd, ret,
                       presentRet, faults, last>>

\* enabled: if err != nil || string(output) != "enabled" { in <- err; return }; in <- nil
EnabledStep(i) ==
    LET n == UnitName(cfgs[i])
        r == IsEnabledCmd(n)
    IN  /\ Live(i, "enabled", "run")
        /\ IF r.err # Nil \/ r.out # "enabled"
           THEN Send(n, r.err)
           ELSE Send(n, Nil)
        /\ Log("is-enabled", n)
        /\ UNCHANGED <<progVars, envVars, proc, call, pc, phase, cfgs, fn, recvd, ret,
                       presentRet, faults, last>>

-----------------------------------------------------------------------------
(* process, the receive loop, and the cli around the Systemd methods *)

\* the goroutines of the current fan-out that have sent their result
Reported == Cardinality({n \in UnitNames : task[n] = "done"})

\* process counting every result it receives, an error too, as nil
Recv_IgnoresErrors ==
    /\ pc = "recv"
    /\ errs # <<>>
    /\ errs' = Tail(errs)
    /\ IF recvd + 1 < Len(cfgs)
       THEN /\ recvd' = recvd + 1
            /\ UNCHANGED <<ret, pc, trace, phase>>
       ELSE IF phase < Len(Fns(call))
       THEN /\ phase' = phase + 1
            /\ pc' = "fanout"
            /\ recvd' = recvd + 1
            /\ UNCHANGED <<ret, trace>>
       ELSE /\ ret' = Nil
            /\ pc' = "returned"
            /\ recvd' = recvd + 1
            /\ trace' = [trace EXCEPT !.reported = Reported]
            /\ UNCHANGED phase
    /\ UNCHANGED <<progVars, envVars, proc, call, cfgs, fn, task, presentRet, faults, last>>

\* process returning the first result it receives, nil or not
Recv_FirstResult ==
    /\ pc = "recv"
    /\ errs # <<>>
    /\ errs' = Tail(errs)
    /\ ret' = Head(errs)
    /\ pc' = "returned"
    /\ trace' = [trace EXCEPT !.reported = Reported]
    /\ UNCHANGED <<progVars, envVars, proc, call, cfgs, fn, task, presentRet, faults, last,
                   recvd, phase>>

\* for range cfgs { if err := <-errs; err != nil { return err } }; return nil
\* and the method's `if err := s.fn(cfgs); err != nil { return err }` around it
Recv ==
    /\ pc = "recv"
    /\ errs # <<>>
    /\ errs' = Tail(errs)
    /\ LET e == Head(errs)
       IN  IF e # Nil
           THEN /\ ret' = e
                /\ pc' = "returned"
                /\ trace' = [trace EXCEPT !.reported = Reported]
                /\ UNCHANGED <<recvd, phase>>
           ELSE IF recvd + 1 < Len(cfgs)
           THEN /\ recvd' = recvd + 1
                /\ UNCHANGED <<ret, pc, trace, phase>>
           ELSE IF phase < Len(Fns(call))
           THEN /\ phase' = phase + 1
                /\ pc' = "fanout"
                /\ recvd' = recvd + 1
                /\ UNCHANGED <<ret, trace>>
           ELSE /\ ret' = Nil
                /\ pc' = "returned"
                /\ recvd' = recvd + 1
                /\ trace' = [trace EXCEPT !.reported = Reported]
                /\ UNCHANGED phase
    /\ UNCHANGED <<progVars, envVars, proc, call, cfgs, fn, task, presentRet, faults, last>>

\* status: a.present() prints the outcome of Present(), then a.enabled() calls
\* Enabled().  What goroutines Present() left behind only read; they are not
\* followed further.
StatusEnabled ==
    /\ proc = "status"
    /\ call = "Present"
    /\ pc = "returned"
    /\ presentRet' = ret
    /\ call' = "Enabled"
    /\ pc' = "configs"
    /\ ret' = Nil
    /\ phase' = 0
    /\ cfgs' = <<>>
    /\ fn' = "none"
    /\ task' = NoTasks
    /\ errs' = <<>>
    /\ recvd' = 0
    /\ trace' = NoTrace
    /\ UNCHANGED <<progVars, envVars, proc, faults, last>>

\* the command reports the outcome and the process ends (return from Run,
\* console.quit or log.Fatal): every goroutine still running ends with it
Exit ==
    /\ proc # "none"
    /\ pc = "returned"
    /\ ~(proc = "status" /\ call = "Present")
    /\ last' = IF proc = "status" THEN last
               ELSE [cmd |-> proc, ret |-> ret, read |-> trace.read]
    /\ proc' = "none"
    /\ call' = "none"
    /\ pc' = "idle"
    /\ phase' = 0
    /\ cfgs' = <<>>
    /\ fn' = "none"
    /\ task' = NoTasks
    /\ errs' = <<>>
    /\ recvd' = 0
    /\ ret' = Nil
    /\ presentRet' = Nil
    /\ trace' = NoTrace
    /\ UNCHANGED <<progVars, envVars, faults>>

\* `bat limit v` (or any other writer of the sysfs file) changes the threshold
SetThreshold(v) ==
    /\ batteries = 1
    /\ v # device
    /\ device' = v
    /\ UNCHANGED <<progVars, batteries, systemdVer, emptyListFails, unitFiles, wants,
                   proc, call, pc, phase, cfgs, fn, task, errs, recvd, ret, presentRet,
                   faults, trace, last>>

-----------------------------------------------------------------------------
(* The steps of the program *)

\* the bat process and its goroutines, every system call succeeding
Sched ==
    \/ \E command \in Commands : Run(command)
    \/ Configs
    \/ Fanout
    \/ WriteGate(FALSE)
    \/ \E i \in 1..Len(cfgs) : CreateOk(i)
    \/ \E i \in 1..Len(cfgs) : ExecuteOk(i)
    \/ \E i \in 1..Len(cfgs) : RemoveOk(i)
    \/ \E i \in 1..Len(cfgs) : EnableStep(i, FALSE)
    \/ \E i \in 1..Len(cfgs) : DisableStep(i, FALSE)
    \/ \E i \in 1..Len(cfgs) : PresentStep(i)
    \/ \E i \in 1..Len(cfgs) : EnabledStep(i)
    \/ Recv
    \/ StatusEnabled
    \/ Exit

Next ==
    \/ Sched
    \/ \E v \in DeviceValues : SetThreshold(v)

Spec == Init /\ [][Next]_vars

\* the same with up to MaxFaults system calls failing, the threshold left alone
NextFaults ==
    \/ Sched
    \/ WriteGate(TRUE)
    \/ \E i \in 1..Len(cfgs) : CreateFails(i, "EACCES")
    \/ \E i \in 1..Len(cfgs) : CreateFails(i, "ENOENT")
    \/ \E i \in 1..Len(cfgs) : ExecuteNil(i)
    \/ \E i \in 1..Len(cfgs) : ExecuteFails(i, "ENOSPC")
    \/ \E i \in 1..Len(cfgs) : ExecuteFailsPartway(i, "ENOSPC")
    \/ \E i \in 1..Len(cfgs) : RemoveFails(i, "EACCES")
    \/ \E i \in 1..Len(cfgs) : EnableStep(i, TRUE)
    \/ \E i \in 1..Len(cfgs) : DisableStep(i, TRUE)

SpecFaults == Init /\ [][NextFaults]_vars

-----------------------------------------------------------------------------
(* The limit command of package cli *)

success == 0

failure == 1

\* the state of a command of package cli and of the Systemd method it calls
runVars == <<proc, call, pc, phase, cfgs, fn, task, errs, recvd, ret, presentRet,
             faults, trace, last>>

\* the state of the systemd package, which limit never touches
pkgVars == <<envVars, runVars>>

\* no persist, remove, disable or status is running and nothing is installed
PackageIdle ==
    /\ emptyListFails = FALSE
    /\ unitFiles = [n \in UnitNames |-> NoFile]
    /\ wants = {}
    /\ proc = "none"
    /\ call = "none"
    /\ pc = "idle"
    /\ phase = 0
    /\ cfgs = <<>>
    /\ fn = "none"
    /\ task = NoTasks
    /\ errs = <<>>
    /\ recvd = 0
    /\ ret = Nil
    /\ presentRet = Nil
    /\ faults = 0
    /\ trace = NoTrace
    /\ last = [cmd |-> "none", ret |-> Nil, read |-> 0]

\* valid returns true if limit is in the range 1-100
valid_ZeroIncluded(limit) == limit >= 0 /\ limit <= MaxThreshold

valid(limit) == limit >= 1 /\ limit <= MaxThreshold

\* the running kernels: version, sublevel and local suffix, or a failing uname
Kernels ==
    [maj : {4, 5, 6}, min : {0, 3, 4, 10},
     rest : {<<>>, <<".", "0", "-", "4", "2">>}, err : {Nil}]
        \cup {[maj |-> 0, min |-> 0, rest |-> <<>>, err |-> "EFAULT"]}

\* kernel: the release text of unix.Uname, "maj.min" and what follows
kernel(k) ==
    IF k.err # Nil THEN [ver |-> <<>>, err |-> k.err]
    ELSE [ver |-> Itoa(k.maj) \o <<".">> \o Itoa(k.min) \o k.rest, err |-> Nil]

RECURSIVE SkipSpace(_)
SkipSpace(s) ==
    IF s # <<>> /\ Head(s) \in {" ", "\t"} THEN SkipSpace(Tail(s)) ELSE s

\* the verb %d of fmt.Sscanf: blanks, an optional sign, a run of decimal digits
ScanInt(s) ==
    LET t      == SkipSpace(s)
        signed == t # <<>> /\ Head(t) \in {"+", "-"}
        body   == IF signed THEN Tail(t) ELSE t
        run    == DigitRun(body)
    IN  IF t = <<>> THEN [val |-> 0, rest |-> t, err |-> "unexpected EOF"]
        ELSE IF run = <<>> THEN [val |-> 0, rest |-> body, err |-> "expected integer"]
        ELSE [val  |-> IF signed /\ Head(t) = "-" THEN 0 - DigitsValue(run, 0)
                       ELSE DigitsValue(run, 0),
              rest |-> SubSeq(body, Len(run) + 1, Len(body)),
              err  |-> Nil]

\* fmt.Sscanf(ver, "%d.%d", &maj, &min); input after the second number is left
Sscanf(ver) ==
    LET a == ScanInt(ver)
        b == ScanInt(Tail(a.rest))
    IN  IF a.err # Nil THEN [maj |-> 0, min |-> 0, err |-> a.err]
        ELSE IF a.rest = <<>> THEN [maj |-> a.val, min |-> 0, err |-> "unexpected EOF"]
        ELSE IF Head(a.rest) # "."
        THEN [maj |-> a.val, min |-> 0, err |-> "input does not match format"]
        ELSE IF b.err # Nil THEN [maj |-> a.val, min |-> 0, err |-> b.err]
        ELSE [maj |-> a.val, min |-> b.val, err |-> Nil]

\* requiredKernel: whether ver is a version 5.4 or later
requiredKernel(ver) ==
    LET r == Sscanf(ver)
    IN  IF r.err # Nil THEN [ok |-> FALSE, err |-> r.err]
        ELSE [ok |-> r.maj > 5 \/ (r.maj = 5 /\ r.min >= 4), err |-> Nil]

\* a number of twenty digits
TwentyNines == [i \in 1..20 |-> "9"]

\* what follows `bat limit` on the command line
LimitArgs ==
    {<<>>, << <<"8", "0">>, <<"9", "0">> >>}
        \cup {<<v>> : v \in {<<"1">>, <<"8", "0">>, <<"1", "0", "0">>, <<"0">>,
                              <<"1", "0", "1">>, <<"+", "5">>, <<"-", "3">>,
                              <<"0", "0", "7">>, <<"a", "b", "c">>, <<>>,
                              <<" ", "5">>, <<"8", "0", "%">>, <<"1", "e", "2">>,
                              TwentyNines}}

\* what a.set returns: nil, or the error of power.Set
SetErrors == {Nil, "power: no battery virtual file found", "EACCES", "EIO"}

\* the command ends: console.quit(code), log.Fatal, or the return from Run
Quit(code, msg) ==
    app' = [app EXCEPT !.pc = "done", !.exit = code, !.msg = msg]

\* limit, the arguments: their number, strconv.Atoi, valid
limitArgs ==
    /\ app.pc = "limit"
    /\ IF Len(app.args) + 2 # 3 THEN Quit(failure, "Single argument needed.")
       ELSE LET t == Atoi(app.args[1])
            IN  IF t.err = ErrSyntax THEN Quit(failure, "Argument must be an integer.")
                ELSE IF t.err # Nil THEN Quit(1, t.err)
                ELSE IF ~valid(t.val)
                THEN Quit(failure, "Percentage must be between 1 and 100.")
                ELSE app' = [app EXCEPT !.pc = "kernel"]
    /\ UNCHANGED <<pkgVars, main>>

\* limit, the kernel: kernel and requiredKernel
limitKernel ==
    /\ app.pc = "kernel"
    /\ LET k  == kernel(app.kernel)
           ok == requiredKernel(k.ver)
       IN  IF k.err # Nil THEN Quit(1, k.err)
           ELSE IF ok.err # Nil THEN Quit(1, ok.err)
           ELSE IF ~ok.ok
           THEN Quit(failure, "Linux kernel version 5.4 or later required.")
           ELSE app' = [app EXCEPT !.pc = "set"]
    /\ UNCHANGED <<pkgVars, main>>

\* limit, the write: a.set(power.Threshold, strings.TrimSpace(val))
limitSet ==
    /\ app.pc = "set"
    /\ app' = [app EXCEPT
                  !.pc = "done",
                  !.set = <<TrimSpace(app.args[1])>>,
                  !.exit = IF app.setErr = Nil THEN success
                           ELSE IF app.setErr \in {"power: no battery virtual file found",
                                                   "EACCES"}
                           THEN failure
                           ELSE 1,
                  !.msg = IF app.setErr = Nil THEN "Charge limit set."
                          ELSE IF app.setErr = "EACCES" THEN "Permission denied."
                          ELSE IF app.setErr = "EIO" THEN app.setErr
                          ELSE "This program is most likely not compatible with your system."]
    /\ UNCHANGED <<pkgVars, main>>

\* `bat limit ...` started, for every command line, kernel and outcome of set
InitLimit ==
    /\ batteries = 1
    /\ device = MaxThreshold
    /\ systemdVer = MinSystemd
    /\ PackageIdle
    /\ main = NoMain
    /\ app \in [pc : {"limit"}, args : LimitArgs, kernel : Kernels, setErr : SetErrors,
                 set : {<<>>}, exit : {success}, msg : {""}]

NextLimit ==
    \/ limitArgs
    \/ limitKernel
    \/ limitSet

SpecLimit == InitLimit /\ [][NextLimit]_vars

-----------------------------------------------------------------------------
(* The single-file program *)

events == <<"hibernate", "hybrid-sleep", "multi-user", "suspend", "suspend-then-hibernate">>

Events == {events[i] : i \in 1..Len(events)}

\* the words that select a command
StatusWords ==
    {<<"s">>, <<"s", "t", "a", "t", "u", "s">>, <<"-", "s">>,
     <<"-", "-", "s", "t", "a", "t", "u", "s">>}

PersistWords ==
    {<<"p">>, <<"p", "e", "r", "s", "i", "s", "t">>, <<"-", "p">>,
     <<"-", "-", "p", "e", "r", "s", "i", "s", "t">>}

RemoveWords ==
    {<<"r">>, <<"r", "e", "m", "o", "v", "e">>, <<"-", "r">>,
     <<"-", "-", "r", "e", "m", "o", "v", "e">>}

LimitWords ==
    {<<"l">>, <<"l", "i", "m", "i", "t">>, <<"-", "l">>,
     <<"-", "-", "l", "i", "m", "i", "t">>}

HelpWords == {<<"h">>, <<"h", "e", "l", "p">>, <<"-", "h">>, <<"-", "-", "h", "e", "l", "p">>}

VersionWords ==
    {<<"V">>, <<"v">>, <<"v", "e", "r", "s", "i", "o", "n">>, <<"-", "V">>, <<"-", "v">>,
     <<"-", "-", "v", "e", "r", "s", "i", "o", "n">>}

\* os.Args[1:] of the runs considered
MainArgSets ==
    {<<>>, << <<"s", "t", "a", "t", "u", "s">> >>, << <<"p", "e", "r", "s", "i", "s", "t">> >>,
     << <<"r", "e", "m", "o", "v", "e">> >>, << <<"-", "r">>, <<"x">> >>,
     << <<"h", "e", "l", "p">> >>, << <<"b", "o", "g", "u", "s">> >>,
     << <<"8", "0">> >>, << <<"0">> >>, << <<"8", "x">> >>, << <<"8", "0">>, <<"x">> >>,
     << <<"l", "i", "m", "i", "t">> >>,
     << <<"l", "i", "m", "i", "t">>, <<"8", "0">>, <<"x">> >>}
        \cup {<< <<"l", "i", "m", "i", "t">>, v >> :
                 v \in {<<"8", "0">>, <<"1">>, <<"1", "0", "0">>, <<"0">>,
                        <<"1", "0", "1">>, <<"-", "1">>, <<"a", "b", "c">>, <<>>}}

\* errexit: the message on standard error, os.Exit(1)
errexit(m, msg) == [m EXCEPT !.pc = "exited", !.exit = 1, !.msg = msg]

\* os.Exit(0), or the return from main
exit0(m, msg) == [m EXCEPT !.pc = "exited", !.exit = 0, !.msg = msg]

\* a run-time panic: the goroutine trace on standard error, exit status 2
panic(m, msg) == [m EXCEPT !.pc = "exited", !.exit = 2, !.msg = msg]

\* mustRead(threshold): the file's bytes but the last, "" when it cannot be opened
mustRead ==
    IF main.supported THEN SubSeq(ReadFile, 1, Len(ReadFile) - 1) ELSE <<>>

\* fmt.Sscanf(output, "systemd %d", &version)
SscanfSystemd(output) ==
    LET word == <<"s", "y", "s", "t", "e", "m", "d">>
    IN  IF Len(output) < Len(word) \/ SubSeq(output, 1, Len(word)) # word
        THEN [val |-> 0, err |-> "input does not match format"]
        ELSE LET v == ScanInt(SubSeq(output, Len(word) + 1, Len(output)))
             IN  [val |-> v.val, err |-> v.err]

\* fmt.Sprintf(unitfile, bat, current, event, ...): the unit written for event
UnitText(event, current) == <<event, current>>

\* the standard output of `systemctl is-enabled chargelimit-<event>.service`
IsEnabledOut(e) ==
    IF main.files[e] = NoFile THEN ""
    ELSE IF e \in main.on THEN "enabled\n"
    ELSE "disabled\n"

\* one more failing system call: the command that failed, in which round
Fault(m, verb) == [m EXCEPT !.f = @ + 1, !.failed = @ \cup {<<verb, m.ev>>}]

\* a command that was run on the unit of the event in turn
Op(m, verb) == [m EXCEPT !.ops = Append(@, <<verb, events[m.ev]>>)]

\* main, up to the dispatch: the arguments, help and version, the battery glob
MainArgs(args) ==
    /\ main.pc \in {"idle", "exited"}
    /\ LET command == IF Len(args) > 0 THEN args[1] ELSE <<"s", "t", "a", "t", "u", "s">>
           maxArgs == IF command \in LimitWords THEN 3
                      ELSE IF Len(args) > 0 THEN 2 ELSE 1
           digit   == command # <<>> /\ IsDigit(command[1])
           m       == [main EXCEPT !.args = args, !.ev = 0, !.cur = 0, !.ops = <<>>,
                                   !.limit = IF digit THEN command ELSE <<>>,
                                   !.wrote = <<>>, !.failed = {}, !.exit = 0,
                                   !.msg = ""]
       IN  main' =
             IF Len(args) + 1 > maxArgs THEN errexit(m, "too many arguments")
             ELSE IF command \in HelpWords \cup VersionWords THEN exit0(m, "help")
             ELSE IF batteries = 0 THEN errexit(m, "No battery device found")
             ELSE IF command \in StatusWords THEN [m EXCEPT !.pc = "status"]
             ELSE IF command \in PersistWords THEN [m EXCEPT !.pc = "persist"]
             ELSE IF command \in RemoveWords THEN [m EXCEPT !.pc = "remove"]
             ELSE IF digit \/ command \in LimitWords THEN [m EXCEPT !.pc = "limit"]
             ELSE errexit(m, "argument invalid")
    /\ UNCHANGED <<pkgVars, app>>

\* status leaving the sleep file out of account
MainStatus_UnitsOnly ==
    /\ main.pc = "status"
    /\ LET limit    == mustRead
           disabled == \E e \in Events : IsEnabledOut(e) # "enabled\n"
       IN  main' = exit0(main, IF limit = <<>> THEN "Charge limit is not supported"
                               ELSE IF disabled THEN "Persist: no"
                               ELSE "Persist: yes")
    /\ UNCHANGED <<pkgVars, app>>

\* case status: Persist is yes when every unit is enabled and the sleep file exists
MainStatus ==
    /\ main.pc = "status"
    /\ LET limit    == mustRead
           disabled == (\E e \in Events : IsEnabledOut(e) # "enabled\n") \/ ~main.sleep
       IN  main' = exit0(main, IF limit = <<>> THEN "Charge limit is not supported"
                               ELSE IF disabled THEN "Persist: no"
                               ELSE "Persist: yes")
    /\ UNCHANGED <<pkgVars, app>>

\* case persist, before the loop: the systemd version and the current limit
MainPersist ==
    /\ main.pc = "persist"
    /\ LET version == SscanfSystemd(VersionOutput)
           limit   == mustRead
           current == Atoi(limit)
       IN  main' =
             IF version.err # Nil THEN errexit(main, "cannot read version")
             ELSE IF version.val < MinSystemd
             THEN errexit(main, "systemd version 244-r1 or later required")
             ELSE IF limit = <<>> THEN errexit(main, "cannot read current limit")
             ELSE IF current.err # Nil \/ current.val = 0
             THEN errexit(main, "cannot convert to integer")
             ELSE [main EXCEPT !.pc = "create", !.ev = 1, !.cur = current.val]
    /\ UNCHANGED <<pkgVars, app>>

\* persist, the loop: os.Create and WriteString of the unit file
MainCreate(denied) ==
    /\ main.pc = "create"
    /\ denied => main.f < MaxFaults
    /\ main' =
         IF denied THEN errexit(Fault(Op(main, "create"), "create"), "insufficient permissions")
         ELSE [Op(main, "create") EXCEPT
                  !.pc = "stop",
                  !.files[events[main.ev]] = UnitText(events[main.ev], main.cur)]
    /\ UNCHANGED <<pkgVars, app>>

\* persist giving up when systemctl stop fails
MainStop_Aborts(fails) ==
    /\ main.pc = "stop"
    /\ fails => main.f < MaxFaults
    /\ main' = IF fails
               THEN errexit(Fault(Op(main, "stop"), "stop"), "could not stop systemd unit file")
               ELSE [Op(main, "stop") EXCEPT !.pc = "start"]
    /\ UNCHANGED <<pkgVars, app>>

\* persist, the loop: systemctl stop, its error dropped
MainStop(fails) ==
    /\ main.pc = "stop"
    /\ fails => main.f < MaxFaults
    /\ main' = [(IF fails THEN Fault(Op(main, "stop"), "stop") ELSE Op(main, "stop"))
                   EXCEPT !.pc = "start"]
    /\ UNCHANGED <<pkgVars, app>>

\* persist dropping the error of systemctl start as it drops that of stop
MainStart_Tolerant(fails) ==
    /\ main.pc = "start"
    /\ fails => main.f < MaxFaults
    /\ IF fails
       THEN /\ main' = [Fault(Op(main, "start"), "start") EXCEPT !.pc = "enable"]
            /\ UNCHANGED device
       ELSE /\ main' = [Op(main, "start") EXCEPT !.pc = "enable"]
            /\ device' = main.files[events[main.ev]][2]
    /\ UNCHANGED <<batteries, systemdVer, emptyListFails, unitFiles, wants, runVars, app>>

\* persist, the loop: systemctl start; the unit writes its limit to the device
MainStart(fails) ==
    /\ main.pc = "start"
    /\ fails => main.f < MaxFaults
    /\ IF fails
       THEN /\ main' = errexit(Fault(Op(main, "start"), "start"),
                               "could not start systemd unit file")
            /\ UNCHANGED device
       ELSE /\ main' = [Op(main, "start") EXCEPT !.pc = "enable"]
            /\ device' = main.files[events[main.ev]][2]
    /\ UNCHANGED <<batteries, systemdVer, emptyListFails, unitFiles, wants, runVars, app>>

\* persist, the loop: systemctl enable, then the next event or the sleep file
MainEnable(fails) ==
    /\ main.pc = "enable"
    /\ fails => main.f < MaxFaults
    /\ main' =
         IF fails
         THEN errexit(Fault(Op(main, "enable"), "enable"), "could not enable systemd unit file")
         ELSE [Op(main, "enable") EXCEPT
                  !.on = @ \cup {events[main.ev]},
                  !.pc = IF main.ev < Len(events) THEN "create" ELSE "sleepfile",
                  !.ev = IF main.ev < Len(events) THEN @ + 1 ELSE @]
    /\ UNCHANGED <<pkgVars, app>>

\* persist, after the loop: the system-sleep file
MainSleepfile(denied) ==
    /\ main.pc = "sleepfile"
    /\ denied => main.f < MaxFaults
    /\ LET m == [main EXCEPT !.ops = Append(@, <<"sleepfile", "system-sleep">>)]
       IN  main' =
             IF denied
             THEN errexit(Fault(m, "sleepfile"), "could not create system-sleep file")
             ELSE exit0([m EXCEPT !.sleep = TRUE], "Persistence enabled")
    /\ UNCHANGED <<pkgVars, app>>

\* case remove, before the loop: os.Remove(sleepfilename), its error dropped
MainRemove ==
    /\ main.pc = "remove"
    /\ main' = [main EXCEPT !.sleep = FALSE, !.pc = "rstop", !.ev = 1]
    /\ UNCHANGED <<pkgVars, app>>

\* the end of one round of remove's loop: the next event, or the end of main
Continue(m) ==
    IF m.ev < Len(events) THEN [m EXCEPT !.pc = "rstop", !.ev = @ + 1]
    ELSE exit0(m, "Persistence of charge limit removed")

\* remove, the loop: systemctl stop, its error dropped
MainRemoveStop ==
    /\ main.pc = "rstop"
    /\ main' = [Op(main, "stop") EXCEPT !.pc = "disable"]
    /\ UNCHANGED <<pkgVars, app>>

\* remove, the loop: systemctl disable; "does not exist" skips to the next event
MainDisable(denied) ==
    /\ main.pc = "disable"
    /\ denied => main.f < MaxFaults
    /\ main' =
         IF denied THEN errexit(Fault(Op(main, "disable"), "disable"), "insufficient permissions")
         ELSE IF main.files[events[main.ev]] = NoFile
         THEN Continue([Op(main, "disable") EXCEPT !.on = @ \ {events[main.ev]}])
         ELSE [Op(main, "disable") EXCEPT !.on = @ \ {events[main.ev]}, !.pc = "delete"]
    /\ UNCHANGED <<pkgVars, app>>

\* remove, the loop: os.Remove of the unit file
MainDelete(fails) ==
    /\ main.pc = "delete"
    /\ fails => main.f < MaxFaults
    /\ main' =
         IF fails THEN errexit(Fault(Op(main, "delete"), "delete"), "failure to remove unit file")
         ELSE Continue([Op(main, "delete") EXCEPT !.files[events[main.ev]] = NoFile])
    /\ UNCHANGED <<pkgVars, app>>

\* case limit: the argument, strconv.Atoi, the range, os.WriteFile
MainLimit(denied) ==
    /\ main.pc = "limit"
    /\ LET missing == main.limit = <<>> /\ Len(main.args) < 2
           limit   == IF main.limit # <<>> THEN main.limit ELSE main.args[2]
           ilimit  == Atoi(limit)
           bad     == ilimit.err # Nil \/ ilimit.val < 0 \/ ilimit.val > 100
           l       == Itoa(IF ilimit.val = 0 THEN 100 ELSE ilimit.val)
       IN  IF missing
           THEN /\ ~denied
                /\ main' = panic(main, "index out of range [2] with length 2")
                /\ UNCHANGED device
           ELSE IF limit = <<>> \/ bad
           THEN /\ ~denied
                /\ main' = errexit(main, IF limit = <<>> THEN "Argument to 'limit' missing"
                                         ELSE "argument to limit must be an integer")
                /\ UNCHANGED device
           ELSE IF denied \/ ~main.supported
           THEN /\ denied => main.f < MaxFaults
                /\ main' = errexit(IF denied THEN Fault(main, "write") ELSE main,
                                   "could not set battery charge limit")
                /\ UNCHANGED device
           ELSE /\ device' = Atoi(l).val
                /\ main' = exit0([main EXCEPT !.wrote = <<l>>],
                                 IF l = <<"1", "0", "0">> THEN "Charge limit unset"
                                 ELSE "Charge limit set")
    /\ UNCHANGED <<batteries, systemdVer, emptyListFails, unitFiles, wants, runVars, app>>

\* a machine with no unit of the program installed, and no process of it yet
InitMain ==
    /\ batteries \in 0..MaxBatteries
    /\ device \in DeviceValues
    /\ systemdVer \in InstalledVersions
    /\ PackageIdle
    /\ app = NoApp
    /\ \E supported \in BOOLEAN :
          main = [NoMain EXCEPT !.pc = "idle", !.files = [e \in Events |-> NoFile],
                                !.supported = supported]

NextMain ==
    \/ \E args \in MainArgSets : MainArgs(args)
    \/ MainStatus
    \/ MainPersist
    \/ MainCreate(FALSE)
    \/ MainCreate(TRUE)
    \/ MainStop(FALSE)
    \/ MainStop(TRUE)
    \/ MainStart(FALSE)
    \/ MainStart(TRUE)
    \/ MainEnable(FALSE)
    \/ MainEnable(TRUE)
    \/ MainSleepfile(FALSE)
    \/ MainSleepfile(TRUE)
    \/ MainRemove
    \/ MainRemoveStop
    \/ MainDisable(FALSE)
    \/ MainDisable(TRUE)
    \/ MainDelete(FALSE)
    \/ MainDelete(TRUE)
    \/ MainLimit(FALSE)
    \/ MainLimit(TRUE)

SpecMain == InitMain /\ [][NextMain]_vars

-----------------------------------------------------------------------------
(* Properties *)

\* every unit file holds the unit rendered for its event with threshold t
Installed(t) ==
    \A i \in 1..Len(EventSeq) :
        unitFiles[UnitName([Event |-> EventSeq[i]])]
            = Render([Event |-> EventSeq[i], Target |-> TargetSeq[i], Threshold |-> t])

\* C1: when Write returns success, each of the five unit files holds the unit
\* rendered with the threshold t in 1..100 that Write read from the device, and
\* Present() and Enabled() called next (by status) both return nil.
C1_WriteThenPresentEnabled ==
    /\ (proc = "persist" /\ pc = "returned" /\ ret = Nil)
          => /\ trace.read \in 1..MaxThreshold
             /\ Installed(trace.read)
             /\ wants = UnitNames
    /\ (proc = "status" /\ pc = "returned" /\ last.cmd = "persist" /\ last.ret = Nil)
          => /\ Installed(last.read)
             /\ ret = Nil
             /\ call = "Enabled" => presentRet = Nil

\* a status after a successful persist of threshold 100 has had nil from both
C1_Witness ==
    /\ proc = "status" /\ call = "Enabled" /\ pc = "returned"
    /\ last.cmd = "persist" /\ last.ret = Nil /\ last.read = MaxThreshold
    /\ presentRet = Nil /\ ret = Nil
    /\ trace.ops = {<<"is-enabled", n>> : n \in UnitNames}

OnDisk == {n \in UnitNames : unitFiles[n] # NoFile}

\* the goroutines of the current fan-out that have not sent their result yet
Pending == {n \in UnitNames : task[n] \notin {"none", "done"}}

\* C3: when exactly one os.Create of a Write fails with EACCES (and nothing else
\* fails), Write returns EACCES, and the Present() that status calls after that
\* persist does not return nil.
C3_FailedCreateNotPresent ==
    /\ (call = "Write" /\ pc = "returned"
        /\ \E n \in UnitNames : trace.failed = {<<"create", n, "EACCES">>})
          => ret = "EACCES"
    /\ (proc = "status" /\ call = "Present" /\ pc = "returned"
        /\ last.cmd = "persist" /\ last.ret = "EACCES")
          => ret # Nil

\* C4: a Remove whose system calls succeed on a machine with one battery
\* returns nil from any starting state, a second one in a row included, and
\* always leaves the same: no unit file and no unit enabled.
C4_RemoveIdempotent ==
    /\ (proc = "remove" /\ pc = "returned" /\ find.err = Nil)
          => ret = Nil /\ OnDisk = {} /\ wants = {}
    /\ (proc = "none" /\ last.cmd = "remove" /\ last.ret = Nil)
          => OnDisk = {} /\ wants = {}

\* a second Remove has removed and disabled all five units again and returned nil
C4_Witness ==
    /\ proc = "remove" /\ pc = "returned" /\ ret = Nil
    /\ last.cmd = "remove" /\ last.ret = Nil
    /\ trace.ops = {<<"remove", n>> : n \in UnitNames}
                      \cup {<<"disable", n>> : n \in UnitNames}

\* C5: every unit a call has rendered holds the threshold the call read once in
\* configs, whatever the device holds by now; after a successful Write that
\* follows a successful Write all five units hold the threshold of the second
\* and, when the two differ, none holds that of the first.
C5_SingleRead ==
    /\ \A i \in 1..Len(cfgs) :
          <<"execute", UnitName(cfgs[i])>> \in trace.ops
              => unitFiles[UnitName(cfgs[i])]
                     = Render([cfgs[i] EXCEPT !.Threshold = trace.read])
    /\ (proc = "persist" /\ pc = "returned" /\ ret = Nil
        /\ last.cmd = "persist" /\ last.ret = Nil)
          => /\ Installed(trace.read)
             /\ last.read # trace.read => ~\E n \in UnitNames : unitFiles[n][3] = last.read

\* a second Write with another threshold has succeeded while the device changed
\* again during the call
C5_Witness ==
    /\ proc = "persist" /\ pc = "returned" /\ ret = Nil
    /\ last.cmd = "persist" /\ last.ret = Nil
    /\ last.read # trace.read
    /\ device # trace.read

\* C6: when Disable returns nil all five units hold the threshold it read and
\* none is enabled; in the status after it Present() returns nil, Enabled()
\* returns an error and `systemctl is-enabled` says enabled for no unit.
C6_DisabledButPresent ==
    /\ (proc = "disable" /\ pc = "returned" /\ ret = Nil)
          => Installed(trace.read) /\ wants = {}
    /\ (proc = "status" /\ pc = "returned" /\ last.cmd = "disable" /\ last.ret = Nil)
          => /\ Installed(last.read)
             /\ \A n \in UnitNames : IsEnabledCmd(n).out # "enabled\n"
             /\ call = "Present" => ret = Nil
             /\ call = "Enabled" => presentRet = Nil /\ ret # Nil

\* the status after a successful disable: Present() nil, Enabled() an error
C6_Witness ==
    /\ proc = "status" /\ call = "Enabled" /\ pc = "returned"
    /\ last.cmd = "disable" /\ last.ret = Nil
    /\ presentRet = Nil /\ ret = "exit status 1"

\* C7: when the latest of the commands that change units (Write, Remove,
\* Disable) returned nil, whatever happened before it, the unit files on disk
\* are none or all five; a partial set is at rest only after one that returned
\* an error.
C7_NoneOrAllFive ==
    (proc = "none" /\ last.ret = Nil) => OnDisk \in {{}, UnitNames}

\* a Write has succeeded on a machine where a system call had failed before
C7_Witness ==
    /\ proc = "none" /\ last.cmd = "persist" /\ last.ret = Nil
    /\ faults > 0
    /\ OnDisk = UnitNames

\* C8: of Remove, Disable, Present and Enabled none runs `systemctl --version`
\* and none returns the incompatibility error.
C8_OnlyWriteQueriesVersion ==
    call \in {"Remove", "Disable", "Present", "Enabled"}
        => ~trace.queried /\ ret # ErrIncompatSystemd

\* C8 as the code has it: Remove, Present and Enabled never run the version
\* query and never return the incompatibility error; Write and Disable both go
\* through write, which starts its goroutines only after the query, on 244 or
\* later, and returns the incompatibility error below that.
C8_WriteAndDisableQueryVersion ==
    /\ call \in {"Remove", "Present", "Enabled"}
          => ~trace.queried /\ ret # ErrIncompatSystemd
    /\ (call \in {"Write", "Disable"} /\ fn # "none")
          => trace.queried /\ systemdVer >= MinSystemd
    /\ (call \in {"Write", "Disable"} /\ pc = "returned" /\ trace.queried
        /\ systemdVer < MinSystemd)
          => ret = ErrIncompatSystemd /\ fn = "none"

\* Disable has returned the incompatibility error on version 243
C8_Witness ==
    /\ call = "Disable" /\ pc = "returned" /\ systemdVer = MinSystemd - 1
    /\ trace.queried /\ ret = ErrIncompatSystemd

\* C9: whenever process returns, all five goroutines have sent their result.
C9_AllReportBeforeReturn ==
    (pc = "returned" /\ fn # "none") => trace.reported = Len(cfgs)

\* C9 as the code has it: process returns nil only when all five goroutines have
\* sent nil; it returns an error as soon as it receives one, when at least one
\* and possibly fewer than five goroutines have sent.
C9_NilAfterAllErrorAtFirst ==
    (pc = "returned" /\ fn # "none")
        => IF ret = Nil
           THEN trace.reported = Len(cfgs) /\ Pending = {} /\ errs = <<>>
           ELSE trace.reported \in 1..Len(cfgs)

\* process has returned an error when one goroutine of five had sent
C9_Witness ==
    /\ pc = "returned" /\ fn # "none" /\ ret # Nil
    /\ trace.reported = 1
    /\ Cardinality(Pending) = Len(cfgs) - 1

\* a goroutine of the current fan-out can take its step
TaskEnabled ==
    \E i \in 1..Len(cfgs) :
        \/ ENABLED CreateOk(i)
        \/ ENABLED ExecuteOk(i)
        \/ ENABLED ExecuteNil(i)
        \/ ENABLED RemoveOk(i)
        \/ ENABLED EnableStep(i, FALSE)
        \/ ENABLED DisableStep(i, FALSE)
        \/ ENABLED PresentStep(i)
        \/ ENABLED EnabledStep(i)

\* C10: when persist, remove or disable ends, every goroutine it started has
\* run to completion.
C10_AllRunToCompletion ==
    [][(proc \in {"persist", "remove", "disable"} /\ proc' = "none") => Pending = {}]_vars

\* C10 as the code has it: process cancels nothing, so as long as the bat
\* process lives a goroutine that has not sent yet can take its step and its
\* send finds room, also after process has returned another's error; when the
\* method returns nil all five have run to completion.  (What is still running
\* when the command exits ends with the process.)
C10_NoCancelWhileAlive ==
    /\ (proc # "none" /\ Pending # {}) => TaskEnabled /\ Len(errs) < Cap
    /\ (pc = "returned" /\ ret = Nil /\ fn # "none") => Pending = {}

\* Write has returned an error, and since then another goroutine has sent
C10_Witness ==
    /\ proc = "persist" /\ pc = "returned" /\ ret # Nil /\ fn # "none"
    /\ Reported > trace.reported
    /\ Pending # {}

\* C11: no unit is ever registered as enabled while its unit file is absent;
\* a Write that returns nil leaves every unit installed and enabled, a Disable
\* every unit installed and not enabled, a Remove every unit absent.
C11_NeverEnabledWithoutFile ==
    /\ \A n \in UnitNames : n \in wants => unitFiles[n] # NoFile
    /\ (call = "Write" /\ pc = "returned" /\ ret = Nil)
          => OnDisk = UnitNames /\ wants = UnitNames
    /\ (call = "Disable" /\ pc = "returned" /\ ret = Nil)
          => OnDisk = UnitNames /\ wants = {}
    /\ (call = "Remove" /\ pc = "returned" /\ ret = Nil)
          => OnDisk = {} /\ wants = {}

\* C12: a Write that follows a failed Write on a machine with one battery and
\* systemd 244 or later, no system call failing this time, returns nil with all
\* five units holding the threshold it read and enabled; a Remove that follows
\* a failed Remove, no system call failing this time, returns nil with no unit
\* file and no unit enabled.  Whatever the failed call and the commands before
\* it had left behind.
C12_RetryConverges ==
    /\ (proc = "persist" /\ pc = "returned" /\ trace.failed = {}
        /\ last.cmd = "persist" /\ last.ret # Nil
        /\ find.err = Nil /\ systemdVer >= MinSystemd)
          => ret = Nil /\ Installed(trace.read) /\ wants = UnitNames
    /\ (proc = "remove" /\ pc = "returned" /\ trace.failed = {}
        /\ last.cmd = "remove" /\ last.ret # Nil
        /\ find.err = Nil)
          => ret = Nil /\ OnDisk = {} /\ wants = {}

\* the retry of a Write whose os.Create had failed with EACCES has returned nil
C12_Witness ==
    /\ proc = "persist" /\ pc = "returned" /\ ret = Nil
    /\ last.cmd = "persist" /\ last.ret = "EACCES"
    /\ Installed(trace.read) /\ wants = UnitNames

\* C13: when Enabled() returns nil, `systemctl is-enabled` reports exactly
\* enabled for every one of the five units.
C13_EnabledOnlyIfAllEnabled ==
    (call = "Enabled" /\ pc = "returned" /\ fn = "enabled" /\ ret = Nil)
        => \A n \in UnitNames : IsEnabledCmd(n).out = "enabled\n"

\* C14: when Present() returns nil, `systemctl list-unit-files` lists every one
\* of the five units; an empty listing makes it return an error.
C14_PresentOnlyIfAllListed ==
    (call = "Present" /\ pc = "returned" /\ fn = "present" /\ ret = Nil)
        => \A n \in UnitNames : ListUnitFilesCmd(n).out # ""

\* C15: when the threshold file is not found, each of Write, Remove, Disable,
\* Present and Enabled returns the error of find (ErrNotFound when there is no
\* battery).
C15_NotFoundPropagates ==
    (find.err # Nil /\ pc = "returned") => ret = find.err

\* C18: in Remove, no unit file is deleted before its unit has been disabled:
\* whenever the delete of a unit's file has run in a call of Remove, the disable
\* of that unit has run in that call before it.
C18_DisableBeforeDelete ==
    call = "Remove" =>
        \A n \in UnitNames :
            <<"remove", n>> \in trace.ops => <<"disable", n>> \in trace.ops

\* C19: a Remove that returns nil leaves no unit file on disk, and an absent
\* file or an absent unit fails nothing: with a battery and no other failure,
\* Remove runs the delete and the disable of every unit and returns nil,
\* whatever was installed before.
C19_RemoveToleratesAbsence ==
    /\ (call = "Remove" /\ pc = "returned" /\ ret = Nil) => OnDisk = {}
    /\ (call = "Remove" /\ pc = "returned" /\ find.err = Nil /\ trace.failed = {})
          => /\ ret = Nil
             /\ \A n \in UnitNames :
                    <<"remove", n>> \in trace.ops /\ <<"disable", n>> \in trace.ops

\* a Remove that succeeded after a persist that had failed on a create
C19_Witness ==
    /\ call = "Remove" /\ pc = "returned" /\ ret = Nil
    /\ last.cmd = "persist" /\ last.ret = "EACCES"
    /\ \A n \in UnitNames :
           <<"remove", n>> \in trace.ops /\ <<"disable", n>> \in trace.ops

\* C17: limit calls set only when one argument is given that parses as an
\* integer in 1..100 and the kernel is a 5.4 or later (major > 5, or major = 5
\* and minor >= 4), and in every such case it does call it; in every other
\* case the command ends with the failure exit code, set never called.
C17_SetOnlyWhenValid ==
    LET one    == Len(app.args) = 1
        t      == Atoi(app.args[1])
        k      == app.kernel
        wanted == /\ one /\ t.err = Nil /\ t.val \in 1..100
                  /\ k.err = Nil
                  /\ (k.maj > 5 \/ (k.maj = 5 /\ k.min >= 4))
    IN  /\ app.set # <<>> => wanted
        /\ app.pc = "done" =>
              IF wanted THEN app.set = <<app.args[1]>>
              ELSE app.set = <<>> /\ app.exit = failure

\* limit has called set with "80" on a 5.10 kernel and ended with success
C17_Witness ==
    /\ app.pc = "done" /\ app.exit = success
    /\ app.set = << <<"8", "0">> >>
    /\ app.kernel.maj = 5 /\ app.kernel.min = 10

\* a run of the single-file program's limit command has ended
LimitRan ==
    /\ main.pc = "exited" /\ main.args # <<>>
    /\ main.args[1] \in LimitWords \/ (main.args[1] # <<>> /\ IsDigit(main.args[1][1]))

\* the arguments that run of limit was given
LimitGiven ==
    IF main.args[1] \in LimitWords THEN Tail(main.args) ELSE main.args

\* C16: on a machine with a battery whose threshold file can be written, the
\* limit command given the one argument n in 0..100 writes n (100 for 0) to the
\* threshold file and reports 'Charge limit unset' exactly when it wrote 100;
\* given anything else it exits with status 1 and does not write the file.
C16_LimitAcceptsZeroToHundred ==
    (LimitRan /\ batteries > 0 /\ main.msg # "could not set battery charge limit") =>
        IF \E n \in 0..100 : LimitGiven = <<Itoa(n)>>
        THEN /\ main.exit = 0
             /\ main.wrote = <<IF LimitGiven[1] = <<"0">> THEN Itoa(100) ELSE LimitGiven[1]>>
             /\ device = Atoi(main.wrote[1]).val
             /\ main.msg = "Charge limit unset" <=> main.wrote = <<Itoa(100)>>
        ELSE main.exit = 1 /\ main.wrote = <<>>

\* a run of the single-file program's persist command
PersistRun == main.args # <<>> /\ main.args[1] \in PersistWords

\* C20: persist never stops or starts the unit of the boot-time event
\* (multi-user), which it creates and enables; the units of the four sleep
\* events are stopped, then started, before they are enabled.
C20_BootUnitNotStarted ==
    PersistRun =>
        /\ \A i \in 1..Len(main.ops) :
              main.ops[i] \notin {<<"stop", "multi-user">>, <<"start", "multi-user">>}
        /\ \A i \in 1..Len(main.ops) :
              (main.ops[i][1] = "enable" /\ main.ops[i][2] # "multi-user")
                  => /\ i > 3
                     /\ main.ops[i - 2] = <<"stop", main.ops[i][2]>>
                     /\ main.ops[i - 1] = <<"start", main.ops[i][2]>>

\* C21: in a run of persist every start of a unit comes right after a stop of
\* that unit; once the loop is entered the run fails only by a command other
\* than stop failing, so a failed stop alone leaves it to end with success; and
\* a failed start or enable ends the run with exit status 1.
C21_StopBeforeStart ==
    PersistRun =>
        /\ \A i \in 1..Len(main.ops) :
              main.ops[i][1] = "start"
                  => i > 1 /\ main.ops[i - 1] = <<"stop", main.ops[i][2]>>
        /\ (main.pc = "exited" /\ main.cur > 0 /\ main.exit # 0)
              => \E x \in main.failed : x[1] # "stop"
        /\ (\A x \in main.failed : x[1] = "stop")
              => main.pc \in {"create", "stop", "start", "enable", "sleepfile"}
                    \/ main.cur = 0
                    \/ (main.pc = "exited" /\ main.exit = 0 /\ main.sleep)
        /\ (\E x \in main.failed : x[1] \in {"start", "enable"})
              => /\ main.pc = "exited" /\ main.exit = 1
                 /\ main.msg # "Persistence enabled"

\* a persist that ended with success although the stop of its third unit failed
C21_Witness ==
    /\ PersistRun /\ main.pc = "exited" /\ main.exit = 0
    /\ main.msg = "Persistence enabled"
    /\ main.failed = {<<"stop", 3>>}
    /\ \E i \in 1..Len(main.ops) : main.ops[i] = <<"start", events[3]>>

\* the five configurations in their order, for threshold t
FiveConfigs(t) ==
    <<[Event |-> "boot", Target |-> "multi-user", Threshold |-> t],
      [Event |-> "hibernation", Target |-> "hibernate", Threshold |-> t],
      [Event |-> "hybridsleep", Target |-> "hybrid-sleep", Threshold |-> t],
      [Event |-> "sleep", Target |-> "suspend", Threshold |-> t],
      [Event |-> "suspendthenhibernate", Target |-> "suspend-then-hibernate",
       Threshold |-> t]>>

\* C22: when configs returns configurations they are exactly five, one per
\* event in the order boot, hibernate, hybrid-sleep, suspend,
\* suspend-then-hibernate, all with the threshold read from the device; what
\* is installed, enabled or running has no part in the result, and the list
\* a method holds stays the one of the threshold it read, whatever the
\* device holds later.
C22_FiveConfigsInOrder ==
    /\ configs.err = Nil => configs.cfgs = FiveConfigs(device)
    /\ configs.err # Nil => configs.cfgs = <<>>
    /\ cfgs # <<>> => cfgs = FiveConfigs(trace.read) /\ Len(cfgs) = 5

\* a method holds the five configurations of the threshold 1 it read, units are
\* installed, and the device holds another threshold by now
C22_Witness ==
    /\ cfgs = FiveConfigs(1) /\ device # 1
    /\ OnDisk = UnitNames
    /\ configs.cfgs = FiveConfigs(device)

\* the units a system call of the current method has failed for
FailedUnits == {x[2] : x \in trace.failed}

\* what the goroutine of cfgs[i] leaves of its unit when nothing fails for it
TaskDone(i) ==
    LET n == UnitName(cfgs[i])
    IN  CASE fn = "write"   -> unitFiles[n] = Render(cfgs[i])
          [] fn = "remove"  -> unitFiles[n] = NoFile
          [] fn = "enable"  -> n \in wants
          [] fn = "disable" -> n \notin wants
          [] OTHER          -> TRUE

\* C23: whatever the interleaving, when a command ends after a fan-out in
\* which the system calls of one unit failed, the other four goroutines have
\* left what they leave when they run alone: the outcome of the fan-out is
\* the same in every interleaving.
C23_SameOutcomeInEveryInterleaving ==
    [][(proc # "none" /\ proc' = "none" /\ fn # "none")
          => \A i \in 1..Len(cfgs) : UnitName(cfgs[i]) \notin FailedUnits => TaskDone(i)]_vars

\* C23 as the code has it: the five goroutines of a fan-out work on pairwise
\* distinct unit names, a step of one changes the file and the registration of
\* its own unit only, and once all five have sent, every unit nothing failed for
\* is as its goroutine leaves it, in every interleaving.  (A command that ends
\* on the first error ends the goroutines that have not run yet, so what is
\* left then depends on the interleaving.)
C23_DistinctUnitsLocalSteps ==
    /\ [](/\ \A i, j \in 1..Len(cfgs) :
                i # j => UnitName(cfgs[i]) # UnitName(cfgs[j])
          /\ (fn # "none" /\ Pending = {})
                => \A i \in 1..Len(cfgs) :
                       UnitName(cfgs[i]) \notin FailedUnits => TaskDone(i))
    /\ [][\A n \in UnitNames :
             (unitFiles'[n] # unitFiles[n] \/ ((n \in wants') # (n \in wants)))
                 => {m \in UnitNames : task'[m] # task[m]} = {n}]_vars

\* all five goroutines of a write have sent, one of them an error, and the
\* other four units are written
C23_Witness ==
    /\ fn = "write" /\ Pending = {} /\ Len(cfgs) = 5
    /\ \E n \in UnitNames :
          /\ trace.failed = {<<"create", n, "EACCES">>}
          /\ \A i \in 1..Len(cfgs) : UnitName(cfgs[i]) # n => TaskDone(i)
          /\ unitFiles[n] = NoFile

\* C24: process returns nil exactly when it has received nil from every one of
\* the five goroutines, and the error it returns is the first result other
\* than nil that it receives.  The results are received in the order they were
\* sent, each sent by a goroutine that finished, whatever its place in cfgs.
C24_FirstErrorInCompletionOrder ==
    /\ [](/\ recvd <= Len(cfgs)
          /\ pc = "recv" => recvd + Len(errs) = Reported /\ recvd < Len(cfgs)
          /\ (pc = "returned" /\ fn # "none")
                => IF ret = Nil THEN recvd = Len(cfgs) /\ Reported = Len(cfgs)
                   ELSE recvd < Len(cfgs) /\ recvd + Len(errs) + 1 = Reported)
    /\ [][/\ (pc = "recv" /\ Len(errs') = Len(errs) - 1)
                => /\ errs' = Tail(errs)
                   /\ Head(errs) # Nil => pc' = "returned" /\ ret' = Head(errs)
                   /\ Head(errs) = Nil => recvd' = recvd + 1
                   /\ pc' = "recv" => Head(errs) = Nil /\ recvd' < Len(cfgs)
                   /\ (pc' = "fanout" \/ (pc' = "returned" /\ ret' = Nil))
                         => Head(errs) = Nil /\ recvd' = Len(cfgs)
          /\ Len(errs') = Len(errs) + 1
                => /\ SubSeq(errs', 1, Len(errs)) = errs
                   /\ \E n \in UnitNames :
                         /\ task[n] # "done" /\ task'[n] = "done"
                         /\ \A m \in UnitNames \ {n} : task'[m] = task[m]]_vars

\* process has returned the error of a goroutine after nil from another, while
\* a goroutine that comes before both in cfgs has not sent yet
C24_Witness ==
    /\ pc = "returned" /\ fn # "none" /\ ret # Nil /\ recvd >= 1
    /\ \E i, j \in 1..Len(cfgs) :
          /\ i < j
          /\ task[UnitName(cfgs[i])] \notin {"none", "done"}
          /\ task[UnitName(cfgs[j])] = "done"

\* a run of the single-file program's status command has ended
StatusRan ==
    /\ main.pc = "exited" /\ main.exit = 0
    /\ main.args = <<>> \/ (main.args # <<>> /\ main.args[1] \in StatusWords)

\* C25: status reports 'Persist: yes' exactly when the charge limit can be
\* read, `systemctl is-enabled` prints "enabled" and a newline for each of the
\* five units, and the sleep file exists; it reports 'Persist: no' when the
\* limit can be read and one of those fails, and neither when the limit cannot
\* be read.
C25_PersistYesIffAllEnabled ==
    StatusRan =>
        LET allEnabled == \A e \in Events : IsEnabledOut(e) = "enabled\n"
        IN  /\ main.msg = "Persist: yes"
                  <=> (main.supported /\ allEnabled /\ main.sleep)
            /\ main.msg = "Persist: no"
                  <=> (main.supported /\ ~(allEnabled /\ main.sleep))
            /\ main.msg = "Charge limit is not supported" <=> ~main.supported
            /\ allEnabled <=> (main.on = Events /\ \A e \in Events : main.files[e] # NoFile)

\* status has reported 'Persist: no' with all five units enabled, the sleep
\* file missing
C25_Witness ==
    /\ StatusRan /\ main.msg = "Persist: no"
    /\ main.on = Events /\ ~main.sleep

\* C26: the channel of a fan-out has one slot per goroutine started, so there
\* is room for the result of every goroutine that has not sent yet, also after
\* process has returned; a goroutine sends once, with the step that ends it, on
\* each of its paths; and while process waits on an empty channel a goroutine
\* is still to send and can take its step.
C26_OneSendEachRoomForAll ==
    /\ []((proc # "none" /\ fn # "none")
             => /\ Cap = Len(cfgs)
                /\ Len(errs) + Cardinality(Pending) <= Cap
                /\ (pc = "recv" /\ errs = <<>>) => Pending # {} /\ TaskEnabled)
    /\ [][(pc' = pc /\ fn' = fn)
             => \A n \in UnitNames :
                   task'[n] # task[n]
                       => /\ task[n] \notin {"none", "done"}
                          /\ IF task'[n] = "done"
                             THEN Len(errs') = Len(errs) + 1
                             ELSE errs' = errs]_vars

\* process has returned the first error, and all five goroutines have sent:
\* the four results it never received sit in the channel
C26_Witness ==
    /\ pc = "returned" /\ ret # Nil /\ fn # "none"
    /\ recvd = 0 /\ Pending = {}
    /\ Len(cfgs) = 5 /\ Len(errs) = 4

\* the enable and disable commands the current method has issued
Registrations == {x \in trace.ops : x[1] \in {"enable", "disable"}}

\* C27: in Write and in Disable an enable or disable command is issued only
\* once the version was found to be 244 or later and all five unit files were
\* created and written with no failure; after a failure of the version query,
\* of a create or of a write, the call issues none.  Write issues enable
\* commands only, Disable disable commands only.
C27_RegisterAfterAllCreated ==
    call \in {"Write", "Disable"} =>
        /\ Registrations # {}
              => /\ trace.queried /\ systemdVer >= MinSystemd
                 /\ \A n \in UnitNames :
                        <<"create", n>> \in trace.ops /\ <<"execute", n>> \in trace.ops
                 /\ Installed(trace.read)
                 /\ \A x \in trace.failed : x[1] \in {"enable", "disable"}
        /\ (\E x \in trace.failed : x[1] \in {"version", "create", "execute"})
              => Registrations = {}
        /\ \A x \in Registrations :
              x[1] = (IF call = "Write" THEN "enable" ELSE "disable")

\* Disable has issued its first disable command, all five units written
C27_Witness ==
    /\ call = "Disable" /\ Cardinality(Registrations) = 1
    /\ \A n \in UnitNames : <<"execute", n>> \in trace.ops
    /\ Installed(trace.read)

\* the commands persist runs for the unit of events[k], in their order
Round(k) ==
    <<<<"create", events[k]>>, <<"stop", events[k]>>, <<"start", events[k]>>,
      <<"enable", events[k]>>>>

\* the unit of events[k] is installed for the limit of this run, and enabled
Processed(k) ==
    /\ main.files[events[k]] = UnitText(events[k], main.cur)
    /\ events[k] \in main.on

\* C28: a run of persist attempts the sleep file, and prints 'Persistence
\* enabled', only when it has created, stopped, started and enabled each of
\* the five units in turn, with no failure but of a stop; a failure of a create,
\* start or enable in round k ends the run with exit status 1, the sleep file
\* not attempted, the units of the rounds before k installed and enabled.
C28_SleepfileAfterAllUnits ==
    PersistRun =>
        /\ ((\E i \in 1..Len(main.ops) : main.ops[i][1] = "sleepfile")
                \/ main.msg = "Persistence enabled")
              => /\ SubSeq(main.ops, 1, 20)
                       = Round(1) \o Round(2) \o Round(3) \o Round(4) \o Round(5)
                 /\ \A k \in 1..Len(events) : Processed(k)
                 /\ \A x \in main.failed : x[1] \in {"stop", "sleepfile"}
        /\ main.msg = "Persistence enabled"
              => /\ main.sleep /\ main.exit = 0 /\ Len(main.ops) = 21
                 /\ \A x \in main.failed : x[1] = "stop"
        /\ \A x \in main.failed :
              x[1] \in {"create", "start", "enable"}
                  => /\ main.pc = "exited" /\ main.exit = 1
                     /\ \A i \in 1..Len(main.ops) : main.ops[i][1] # "sleepfile"
                     /\ \A k \in 1..(x[2] - 1) : Processed(k)

\* persist has ended with status 1 on the failed start of its third unit, the
\* first two units installed and enabled, the third written and not enabled
C28_Witness ==
    /\ PersistRun /\ main.pc = "exited" /\ main.exit = 1
    /\ main.failed = {<<"start", 3>>}
    /\ Processed(1) /\ Processed(2)
    /\ main.files[events[3]] # NoFile /\ events[3] \notin main.on
    /\ ~main.sleep

====
